---- MODULE Spec2Model ----
(***************************************************************************)
(* A model of jsongo (src/jsongo.go): the JSONNode tree, its build-time    *)
(* operations (At, Map, Array, Val, Get, Unset, UnmarshalDontGenerate) and *)
(* its codec (MarshalJSON, UnmarshalJSON).                                 *)
(*                                                                         *)
(* Go's memory is modelled explicitly, because the code hands out pointers *)
(* into slices and copies JSONNode structs by value when an array grows:   *)
(*   - a cell is one JSONNode struct in memory (the root variable, a       *)
(*     heap node held by a map, or one element of a slice's backing        *)
(*     array); cell 0 is the nil pointer;                                  *)
(*   - a map object is a separate heap object shared by every struct copy  *)
(*     that holds it; map 0 is the nil map;                                *)
(*   - a slice is the sequence of the cells of its backing array, plus a   *)
(*     flag telling a nil slice from an empty one.                         *)
(* Memory that no pointer reaches is reclaimed after every operation.      *)
(***************************************************************************)
EXTENDS Integers, Sequences, FiniteSets, TLC

VARIABLES heap, held, last, calls

vars == <<heap, held, last, calls>>

\* ---------------------------------------------------------------- bounds
\* number of JSONNode structs that can be live at once
NCells == 5
\* number of map objects that can be live at once
NMaps == 2
\* number of calls the caller makes
MaxCalls == 3

\* ------------------------------------------------------- program constants
TypeUndefined == 0
TypeMap == 1
TypeArray == 2
TypeValue == 3

ErrorKeyAlreadyExist == "jsongo key already exist"
ErrorMultipleType == "jsongo this node is already set to a different jsonNodeType"
ErrorArrayNegativeValue == "jsongo negative index for array"
ErrorAtUnsupportedType == "jsongo Unsupported Type as At argument"
ErrorRetrieveUserValue == "jsongo Cannot retrieve node's value which is not of type value"
ErrorTypeUnmarshaling == "jsongo Wrong type when Unmarshaling"
\* an error of encoding/json's own (invalid text)
SyntaxError == "json: syntax error"
\* a Go runtime panic (index out of range)
RuntimeError == "runtime error: index out of range"
\* the nil error
NoError == "nil"

\* the cell of the caller's root variable
Root == 1

\* object keys used as inputs
Keys == {"a", "b"}

\* ------------------------------------------------------------ Go values
\* interface{} values: nil, an int given by the caller, and what
\* encoding/json produces when it decodes into an interface{}
\* (float64, map[string]interface{}, []interface{}).
GoNil == [k |-> "nil", n |-> 0, f |-> <<>>, e |-> <<>>]
GoInt(n) == [k |-> "int", n |-> n, f |-> <<>>, e |-> <<>>]
GoFloat(n) == [k |-> "float64", n |-> n, f |-> <<>>, e |-> <<>>]
GoMap(f) == [k |-> "map", n |-> 0, f |-> f, e |-> <<>>]
GoSlice(e) == [k |-> "slice", n |-> 0, f |-> <<>>, e |-> e]

\* JSON text, by its syntax tree; "empty" is the empty input and "invalid"
\* is text that is not JSON.
JNull == [k |-> "null", n |-> 0, f |-> <<>>, e |-> <<>>]
JNum(n) == [k |-> "number", n |-> n, f |-> <<>>, e |-> <<>>]
JObj(f) == [k |-> "object", n |-> 0, f |-> f, e |-> <<>>]
JArr(e) == [k |-> "array", n |-> 0, f |-> <<>>, e |-> e]
JEmpty == [k |-> "empty", n |-> 0, f |-> <<>>, e |-> <<>>]
JInvalid == [k |-> "invalid", n |-> 0, f |-> <<>>, e |-> <<>>]

\* ------------------------------------------------------------- the heap
\* the zero value of JSONNode
Zero ==
  [t |-> TypeUndefined, m |-> 0, a |-> <<>>, aMade |-> FALSE, v |-> GoNil,
   dontGenerate |-> FALSE]

NoKeys == [k \in Keys |-> 0]

EmptyHeap ==
  [cells |-> [c \in 0..NCells |-> Zero],
   maps |-> [m \in 0..NMaps |-> NoKeys],
   used |-> {Root},
   usedm |-> {},
   oom |-> FALSE]

MinOf(S) == CHOOSE x \in S : \A y \in S : x <= y

RECURSIVE LowestFree(_, _)
\* the n lowest ids of free, in order; 0 where memory has run out
LowestFree(free, n) ==
  IF n = 0 THEN <<>>
  ELSE IF free = {} THEN <<0>> \o LowestFree(free, n - 1)
  ELSE LET x == MinOf(free) IN <<x>> \o LowestFree(free \ {x}, n - 1)

\* make([]JSONNode, n): a backing array of n zeroed structs
make(h, n) ==
  LET ids == LowestFree((1..NCells) \ h.used, n)
      got == {ids[i] : i \in 1..n}
  IN [h |-> [h EXCEPT !.cells = [c \in 0..NCells |-> IF c \in got THEN Zero ELSE @[c]],
                      !.used = @ \cup (got \ {0}),
                      !.oom = @ \/ (0 \in got)],
      ids |-> ids]

\* new(JSONNode) / &JSONNode{}: one zeroed struct on the heap
new(h) ==
  LET mk == make(h, 1) IN [h |-> mk.h, id |-> mk.ids[1]]

\* make(map[string]*JSONNode)
makeMap(h) ==
  LET free == (1..NMaps) \ h.usedm
      id == IF free = {} THEN 0 ELSE MinOf(free)
  IN [h |-> [h EXCEPT !.maps[id] = NoKeys,
                      !.usedm = @ \cup ({id} \ {0}),
                      !.oom = @ \/ (id = 0)],
      id |-> id]

\* len(that.m)
MapLen(h, m) == Cardinality({k \in Keys : h.maps[m][k] # 0})

\* the cells a struct points to: the values of its map, the elements of its slice
Children(h, c) ==
  {h.maps[h.cells[c].m][k] : k \in Keys} \cup
  {h.cells[c].a[i] : i \in 1..Len(h.cells[c].a)}

RECURSIVE Reach(_, _, _)
\* the cells reachable from the cells of front
Reach(h, front, seen) ==
  IF front = {} THEN seen
  ELSE LET nxt == (UNION {Children(h, c) : c \in front}) \ (seen \cup {0})
       IN Reach(h, nxt, seen \cup nxt)

\* the garbage collector: memory no pointer reaches is zeroed and free again
Collect(h, roots) ==
  LET live == Reach(h, roots \ {0}, roots \ {0})
      livem == {h.cells[c].m : c \in live} \ {0}
  IN [cells |-> [c \in 0..NCells |-> IF c \in live THEN h.cells[c] ELSE Zero],
      maps |-> [m \in 0..NMaps |-> IF m \in livem THEN h.maps[m] ELSE NoKeys],
      used |-> live,
      usedm |-> livem,
      oom |-> h.oom]

\* the result of a call: the memory after it, the panic or error it ended
\* with (NoError when it returned normally) and the pointer it returned
Ret(h, c) == [h |-> h, err |-> NoError, ret |-> c]
Panic(h, e) == [h |-> h, err |-> e, ret |-> 0]

\* ------------------------------------------------------ path navigation
\* an argument of At: a string, an int, or a value of another type
StrStep(s) == [kind |-> "string", s |-> s, i |-> 0]
IntStep(i) == [kind |-> "int", s |-> "", i |-> i]
OtherStep == [kind |-> "other", s |-> "", i |-> 0]

RECURSIVE At(_, _, _)
RECURSIVE atMap(_, _, _, _)
RECURSIVE atArray(_, _, _, _)

At(h, that, val) ==
  IF Len(val) = 0 THEN Ret(h, that)
  ELSE IF val[1].kind = "string" THEN atMap(h, that, val[1].s, Tail(val))
  ELSE IF val[1].kind = "int" THEN atArray(h, that, val[1].i, Tail(val))
  ELSE Panic(h, ErrorAtUnsupportedType)

atMap(h, that, key, val) ==
  IF h.cells[that].t # TypeUndefined /\ h.cells[that].t # TypeMap
  THEN Panic(h, ErrorMultipleType)
  ELSE
    LET h1 == IF h.cells[that].m = 0
              THEN LET mk == makeMap(h)
                   IN [mk.h EXCEPT !.cells[that].m = mk.id,
                                   !.cells[that].t = TypeMap]
              ELSE h
        m == h1.cells[that].m
    IN IF h1.maps[m][key] # 0
       THEN At(h1, h1.maps[m][key], val)
       ELSE LET nw == new(h1)
                h2 == [nw.h EXCEPT !.maps[m][key] = nw.id]
            IN At(h2, nw.id, val)

\* atArray with the copy loop of lines 102-104 left out
atArrayNoCopy(h, that, key, val) ==
  IF h.cells[that].t # TypeUndefined /\ h.cells[that].t # TypeArray
  THEN Panic(h, ErrorMultipleType)
  ELSE
    LET h1 == [h EXCEPT !.cells[that].t = TypeArray]
    IN IF key < 0 THEN Panic(h1, ErrorArrayNegativeValue)
       ELSE
         LET h2 == IF key >= Len(h1.cells[that].a)
                   THEN LET newa == make(h1, key + 1)
                        IN [newa.h EXCEPT !.cells[that].a = newa.ids,
                                          !.cells[that].aMade = TRUE]
                   ELSE h1
         IN At(h2, h2.cells[that].a[key + 1], val)

\* atArray that reallocates on every call, to key+1 elements
atArrayAlwaysResize(h, that, key, val) ==
  IF h.cells[that].t # TypeUndefined /\ h.cells[that].t # TypeArray
  THEN Panic(h, ErrorMultipleType)
  ELSE
    LET h1 == [h EXCEPT !.cells[that].t = TypeArray]
    IN IF key < 0 THEN Panic(h1, ErrorArrayNegativeValue)
       ELSE
         LET old == h1.cells[that].a
             keep == IF Len(old) < key + 1 THEN Len(old) ELSE key + 1
             newa == make(h1, key + 1)
             copied == [newa.h EXCEPT !.cells =
                          [c \in 0..NCells |->
                             IF \E i \in 1..keep : newa.ids[i] = c /\ c # 0
                             THEN h1.cells[old[CHOOSE i \in 1..keep : newa.ids[i] = c]]
                             ELSE @[c]]]
             h2 == [copied EXCEPT !.cells[that].a = newa.ids,
                                  !.cells[that].aMade = TRUE]
         IN At(h2, h2.cells[that].a[key + 1], val)

atArray(h, that, key, val) ==
  IF h.cells[that].t # TypeUndefined /\ h.cells[that].t # TypeArray
  THEN Panic(h, ErrorMultipleType)
  ELSE
    LET h1 == [h EXCEPT !.cells[that].t = TypeArray]
    IN IF key < 0 THEN Panic(h1, ErrorArrayNegativeValue)
       ELSE
         LET old == h1.cells[that].a
             h2 == IF key >= Len(old)
                   THEN LET newa == make(h1, key + 1)
                            copied == [newa.h EXCEPT !.cells =
                                         [c \in 0..NCells |->
                                            IF \E i \in 1..Len(old) : newa.ids[i] = c /\ c # 0
                                            THEN h1.cells[old[CHOOSE i \in 1..Len(old) : newa.ids[i] = c]]
                                            ELSE @[c]]]
                        IN [copied EXCEPT !.cells[that].a = newa.ids,
                                          !.cells[that].aMade = TRUE]
                   ELSE h1
         IN At(h2, h2.cells[that].a[key + 1], val)

\* ------------------------------------------------------ explicit mutators
\* Map without the kind check of lines 112-114
MapNoKindCheck(h, that, key) ==
  LET h1 == IF h.cells[that].m = 0
            THEN LET mk == makeMap(h)
                 IN [mk.h EXCEPT !.cells[that].m = mk.id,
                                 !.cells[that].t = TypeMap]
            ELSE h
      m == h1.cells[that].m
  IN IF h1.maps[m][key] # 0
     THEN Panic(h1, ErrorKeyAlreadyExist)
     ELSE LET nw == new(h1)
          IN Ret([nw.h EXCEPT !.maps[m][key] = nw.id], nw.id)

\* Map without the key check of lines 119-121: the key gets a new child
MapReplace(h, that, key) ==
  IF h.cells[that].t # TypeUndefined /\ h.cells[that].t # TypeMap
  THEN Panic(h, ErrorMultipleType)
  ELSE
    LET h1 == IF h.cells[that].m = 0
              THEN LET mk == makeMap(h)
                   IN [mk.h EXCEPT !.cells[that].m = mk.id,
                                   !.cells[that].t = TypeMap]
              ELSE h
        m == h1.cells[that].m
        nw == new(h1)
    IN Ret([nw.h EXCEPT !.maps[m][key] = nw.id], nw.id)

Map(h, that, key) ==
  IF h.cells[that].t # TypeUndefined /\ h.cells[that].t # TypeMap
  THEN Panic(h, ErrorMultipleType)
  ELSE
    LET h1 == IF h.cells[that].m = 0
              THEN LET mk == makeMap(h)
                   IN [mk.h EXCEPT !.cells[that].m = mk.id,
                                   !.cells[that].t = TypeMap]
              ELSE h
        m == h1.cells[that].m
    IN IF h1.maps[m][key] # 0
       THEN Panic(h1, ErrorKeyAlreadyExist)
       ELSE LET nw == new(h1)
            IN Ret([nw.h EXCEPT !.maps[m][key] = nw.id], nw.id)


\* the number of elements Array copies over: line 137 takes it from the
\* length of the map, not of the slice
ArrayMin(h, that, size) ==
  IF size < MapLen(h, h.cells[that].m) THEN size ELSE MapLen(h, h.cells[that].m)

Array(h, that, size) ==
  IF h.cells[that].t # TypeUndefined /\ h.cells[that].t # TypeArray
  THEN Panic(h, ErrorMultipleType)
  ELSE
    LET h1 == [h EXCEPT !.cells[that].t = TypeArray]
    IN IF size < 0 THEN Panic(h1, ErrorArrayNegativeValue)
       ELSE
         LET min == ArrayMin(h1, that, size)
             old == h1.cells[that].a
             newa == make(h1, size)
         IN IF min > Len(old) THEN Panic(newa.h, RuntimeError)
            ELSE
              LET copied == [newa.h EXCEPT !.cells =
                               [c \in 0..NCells |->
                                  IF \E i \in 1..min : newa.ids[i] = c /\ c # 0
                                  THEN h1.cells[old[CHOOSE i \in 1..min : newa.ids[i] = c]]
                                  ELSE @[c]]]
              IN Ret([copied EXCEPT !.cells[that].a = newa.ids,
                                    !.cells[that].aMade = TRUE], that)

\* Val that keeps the value a Value node already has
ValKeepFirst(h, that, val) ==
  IF h.cells[that].t = TypeUndefined
  THEN Ret([h EXCEPT !.cells[that].t = TypeValue, !.cells[that].v = val], that)
  ELSE IF h.cells[that].t # TypeValue THEN Panic(h, ErrorMultipleType)
  ELSE Ret(h, that)

\* Val without the kind assignment of line 153
ValNoKind(h, that, val) ==
  IF h.cells[that].t # TypeUndefined /\ h.cells[that].t # TypeValue
  THEN Panic(h, ErrorMultipleType)
  ELSE Ret([h EXCEPT !.cells[that].v = val], that)

Val(h, that, val) ==
  IF h.cells[that].t # TypeUndefined /\ h.cells[that].t # TypeValue
  THEN Panic(h, ErrorMultipleType)
  ELSE Ret([h EXCEPT !.cells[that].t = TypeValue, !.cells[that].v = val], that)

\* Get: the value it returns is in out
Get(h, that) ==
  IF h.cells[that].t # TypeValue
  THEN [h |-> h, err |-> ErrorRetrieveUserValue, out |-> GoNil]
  ELSE [h |-> h, err |-> NoError, out |-> h.cells[that].v]

\* Unset that leaves the dontGenerate flag as it is
UnsetKeepFlag(h, that) ==
  Ret([h EXCEPT !.cells[that] =
         [Zero EXCEPT !.dontGenerate = h.cells[that].dontGenerate]], that)

Unset(h, that) == Ret([h EXCEPT !.cells[that] = Zero], that)

RECURSIVE UnmarshalDontGenerateAll(_, _, _, _)
RECURSIVE UnmarshalDontGenerate(_, _, _, _)

\* the loops of lines 181-187: the call on every cell of todo, one after another
UnmarshalDontGenerateAll(h, todo, val, recurse) ==
  IF todo = <<>> THEN h
  ELSE UnmarshalDontGenerateAll(
         UnmarshalDontGenerate(h, todo[1], val, recurse), Tail(todo), val, recurse)

RECURSIVE SetToSeq(_)
SetToSeq(S) ==
  IF S = {} THEN <<>> ELSE LET x == MinOf(S) IN <<x>> \o SetToSeq(S \ {x})

\* UnmarshalDontGenerate that never goes down to the children
UnmarshalDontGenerateNoRecurse(h, that, val, recurse) ==
  [h EXCEPT !.cells[that].dontGenerate = val]

UnmarshalDontGenerate(h, that, val, recurse) ==
  LET h1 == [h EXCEPT !.cells[that].dontGenerate = val]
      t == h1.cells[that].t
  IN IF ~recurse THEN h1
     ELSE IF t = TypeMap
     THEN UnmarshalDontGenerateAll(
            h1, SetToSeq({h1.maps[h1.cells[that].m][k] : k \in Keys} \ {0}), val, recurse)
     ELSE IF t = TypeArray
     THEN UnmarshalDontGenerateAll(h1, h1.cells[that].a, val, recurse)
     ELSE h1

\* ------------------------------------------------------------------ encode
RECURSIVE jsonMarshal(_)
\* json.Marshal of an interface{} value
jsonMarshal(v) ==
  IF v.k = "nil" THEN JNull
  ELSE IF v.k = "int" \/ v.k = "float64" THEN JNum(v.n)
  ELSE IF v.k = "map" THEN JObj([k \in DOMAIN v.f |-> jsonMarshal(v.f[k])])
  ELSE JArr([i \in 1..Len(v.e) |-> jsonMarshal(v.e[i])])

RECURSIVE MarshalJSON(_, _)
\* the text MarshalJSON returns (no value of the model fails to encode)
MarshalJSON(h, that) ==
  LET n == h.cells[that]
  IN IF n.t = TypeMap
     THEN IF n.m = 0 THEN JNull
          ELSE JObj([k \in {x \in Keys : h.maps[n.m][x] # 0} |->
                       MarshalJSON(h, h.maps[n.m][k])])
     ELSE IF n.t = TypeArray
     THEN IF ~n.aMade THEN JNull
          ELSE JArr([i \in 1..Len(n.a) |-> MarshalJSON(h, n.a[i])])
     ELSE IF n.t = TypeValue THEN jsonMarshal(n.v)
     ELSE JNull

\* ------------------------------------------------------------------ decode
RECURSIVE jsonUnmarshalValue(_)
\* json.Unmarshal of valid text into an interface{}
jsonUnmarshalValue(data) ==
  IF data.k = "null" THEN GoNil
  ELSE IF data.k = "number" THEN GoFloat(data.n)
  ELSE IF data.k = "object"
  THEN GoMap([k \in DOMAIN data.f |-> jsonUnmarshalValue(data.f[k])])
  ELSE GoSlice([i \in 1..Len(data.e) |-> jsonUnmarshalValue(data.e[i])])

\* the result of a decode call: an error it returned, or a panic that left it
Done(h) == [h |-> h, err |-> NoError, panic |-> FALSE]
Fail(h, e) == [h |-> h, err |-> e, panic |-> FALSE]
Raise(h, e) == [h |-> h, err |-> e, panic |-> TRUE]

RECURSIVE UnmarshalJSON(_, _, _, _)
RECURSIVE UnmarshalKeys(_, _, _, _, _)
RECURSIVE UnmarshalIndexes(_, _, _, _, _)

\* json.Unmarshal(data, node) of lines 229, 234 and 253: the text is checked,
\* then the node's UnmarshalJSON is called with it
jsonUnmarshal(h, node, data, ord) ==
  IF data.k = "invalid" \/ data.k = "empty" THEN Fail(h, SyntaxError)
  ELSE UnmarshalJSON(h, node, data, ord)

\* the loop of lines 227-239 without the dontGenerate test of line 233
UnmarshalKeysAlwaysGenerate(h, that, f, todo, ord) ==
  IF todo = <<>> THEN Done(h)
  ELSE
    LET k == Head(todo)
        child == h.maps[h.cells[that].m][k]
    IN IF child # 0
       THEN LET r == jsonUnmarshal(h, child, f[k], ord)
            IN IF r.err # NoError THEN r
               ELSE UnmarshalKeys(r.h, that, f, Tail(todo), ord)
       ELSE LET mp == Map(h, that, k)
            IN IF mp.err # NoError THEN Raise(mp.h, mp.err)
               ELSE LET r == jsonUnmarshal(mp.h, mp.ret, f[k], ord)
                    IN IF r.err # NoError THEN r
                       ELSE UnmarshalKeys(r.h, that, f, Tail(todo), ord)

\* the loop of lines 227-239 over the keys todo, in that order
UnmarshalKeys(h, that, f, todo, ord) ==
  IF todo = <<>> THEN Done(h)
  ELSE
    LET k == Head(todo)
        child == h.maps[h.cells[that].m][k]
    IN IF child # 0
       THEN LET r == jsonUnmarshal(h, child, f[k], ord)
            IN IF r.err # NoError THEN r
               ELSE UnmarshalKeys(r.h, that, f, Tail(todo), ord)
       ELSE IF ~h.cells[that].dontGenerate
       THEN LET mp == Map(h, that, k)
            IN IF mp.err # NoError THEN Raise(mp.h, mp.err)
               ELSE LET r == jsonUnmarshal(mp.h, mp.ret, f[k], ord)
                    IN IF r.err # NoError THEN r
                       ELSE UnmarshalKeys(r.h, that, f, Tail(todo), ord)
       ELSE UnmarshalKeys(h, that, f, Tail(todo), ord)

\* the loop of lines 251-258 without the test of line 252
UnmarshalIndexesAlwaysGenerate(h, that, e, i, ord) ==
  IF i < 0 THEN Done(h)
  ELSE LET at == At(h, that, <<IntStep(i)>>)
       IN IF at.err # NoError THEN Raise(at.h, at.err)
          ELSE LET r == jsonUnmarshal(at.h, at.ret, e[i + 1], ord)
               IN IF r.err # NoError THEN r
                  ELSE UnmarshalIndexes(r.h, that, e, i - 1, ord)

RECURSIVE UnmarshalIndexesUp(_, _, _, _, _)
\* the loop of lines 251-258 run from index j up to the last index
UnmarshalIndexesUp(h, that, e, j, ord) ==
  IF j >= Len(e) THEN Done(h)
  ELSE IF ~h.cells[that].dontGenerate \/ j < Len(h.cells[that].a)
  THEN LET at == At(h, that, <<IntStep(j)>>)
       IN IF at.err # NoError THEN Raise(at.h, at.err)
          ELSE LET r == jsonUnmarshal(at.h, at.ret, e[j + 1], ord)
               IN IF r.err # NoError THEN r
                  ELSE UnmarshalIndexesUp(r.h, that, e, j + 1, ord)
  ELSE UnmarshalIndexesUp(h, that, e, j + 1, ord)

\* the loop of lines 251-258 run from the first index to the last
UnmarshalIndexesAscending(h, that, e, i, ord) ==
  UnmarshalIndexesUp(h, that, e, 0, ord)

\* the loop of lines 251-258, from index i down to 0
UnmarshalIndexes(h, that, e, i, ord) ==
  IF i < 0 THEN Done(h)
  ELSE IF ~h.cells[that].dontGenerate \/ i < Len(h.cells[that].a)
  THEN LET at == At(h, that, <<IntStep(i)>>)
       IN IF at.err # NoError THEN Raise(at.h, at.err)
          ELSE LET r == jsonUnmarshal(at.h, at.ret, e[i + 1], ord)
               IN IF r.err # NoError THEN r
                  ELSE UnmarshalIndexes(r.h, that, e, i - 1, ord)
  ELSE UnmarshalIndexes(h, that, e, i - 1, ord)

\* UnmarshalJSON without the kind tests of lines 219-221 and 243-245
UnmarshalJSONNoTypeCheck(h, that, data, ord) ==
  LET n == h.cells[that]
  IN IF data.k = "empty" THEN Done(h)
     ELSE IF ~(n.dontGenerate /\ n.t = TypeUndefined) /\ data.k = "object"
     THEN UnmarshalKeys(h, that, data.f,
                        SelectSeq(ord, LAMBDA k : k \in DOMAIN data.f), ord)
     ELSE IF ~(n.dontGenerate /\ n.t = TypeUndefined) /\ data.k = "array"
     THEN UnmarshalIndexes(h, that, data.e, Len(data.e) - 1, ord)
     ELSE IF data.k = "invalid" THEN Fail(h, SyntaxError)
     ELSE LET r == Val(h, that, jsonUnmarshalValue(data))
          IN IF r.err # NoError THEN Raise(r.h, r.err) ELSE Done(r.h)

\* UnmarshalJSON without the test of line 217
UnmarshalJSONAlwaysStructural(h, that, data, ord) ==
  LET n == h.cells[that]
  IN IF data.k = "empty" THEN Done(h)
     ELSE IF data.k = "object"
     THEN IF n.t # TypeMap /\ n.t # TypeUndefined THEN Fail(h, ErrorTypeUnmarshaling)
          ELSE UnmarshalKeys(h, that, data.f,
                             SelectSeq(ord, LAMBDA k : k \in DOMAIN data.f), ord)
     ELSE IF data.k = "array"
     THEN IF n.t # TypeArray /\ n.t # TypeUndefined THEN Fail(h, ErrorTypeUnmarshaling)
          ELSE UnmarshalIndexes(h, that, data.e, Len(data.e) - 1, ord)
     ELSE IF data.k = "invalid" THEN Fail(h, SyntaxError)
     ELSE LET r == Val(h, that, jsonUnmarshalValue(data))
          IN IF r.err # NoError THEN Raise(r.h, r.err) ELSE Done(r.h)

\* ord is the order in which this run's range loops visit the keys of a map
UnmarshalJSON(h, that, data, ord) ==
  LET n == h.cells[that]
  IN IF data.k = "empty" THEN Done(h)
     ELSE IF ~(n.dontGenerate /\ n.t = TypeUndefined) /\ data.k = "object"
     THEN IF n.t # TypeMap /\ n.t # TypeUndefined THEN Fail(h, ErrorTypeUnmarshaling)
          ELSE UnmarshalKeys(h, that, data.f,
                             SelectSeq(ord, LAMBDA k : k \in DOMAIN data.f), ord)
     ELSE IF ~(n.dontGenerate /\ n.t = TypeUndefined) /\ data.k = "array"
     THEN IF n.t # TypeArray /\ n.t # TypeUndefined THEN Fail(h, ErrorTypeUnmarshaling)
          ELSE UnmarshalIndexes(h, that, data.e, Len(data.e) - 1, ord)
     ELSE IF data.k = "invalid" THEN Fail(h, SyntaxError)
     ELSE LET r == Val(h, that, jsonUnmarshalValue(data))
          IN IF r.err # NoError THEN Raise(r.h, r.err) ELSE Done(r.h)

\* At on a path that exists: the cell it reaches, 0 when a step is missing
RECURSIVE Lookup(_, _, _)
Lookup(h, that, val) ==
  IF that = 0 \/ Len(val) = 0 THEN that
  ELSE IF val[1].kind = "string"
  THEN Lookup(h, h.maps[h.cells[that].m][val[1].s], Tail(val))
  ELSE IF val[1].kind = "int" /\ val[1].i >= 0 /\ val[1].i < Len(h.cells[that].a)
  THEN Lookup(h, h.cells[that].a[val[1].i + 1], Tail(val))
  ELSE 0

\* ------------------------------------------------------------------ inputs
Steps ==
  {StrStep("a"), StrStep("b"), IntStep(0), IntStep(1), IntStep(-1), OtherStep}

\* the argument lists given to At: none, every single step, and some of two steps
PathInputs ==
  {<<>>} \cup {<<x>> : x \in Steps} \cup
  {<<StrStep("a"), StrStep("b")>>, <<StrStep("a"), IntStep(-1)>>,
   <<StrStep("a"), OtherStep>>}

ValInputs == {GoInt(1), GoInt(2)}

SizeInputs == {-1, 0, 1, 2}

DocInputs ==
  {JEmpty, JInvalid, JNum(1),
   JObj(<<>>),
   JObj("a" :> JNum(1)),
   JObj(("a" :> JNum(2)) @@ ("b" :> JNum(1))),
   JArr(<<>>),
   JArr(<<JNum(1)>>),
   JArr(<<JNum(2), JNum(1)>>),
   JArr(<<JObj("a" :> JNum(1)), JNum(2)>>),
   JArr(<<JNum(1), JObj("a" :> JNum(1))>>)}

\* the orders in which a range loop can visit the keys
KeyOrders == {<<"a", "b">>, <<"b", "a">>}

\* the orders that differ for the text data (its top level has two keys or more)
OrdersFor(data) ==
  IF Cardinality(DOMAIN data.f) > 1 THEN KeyOrders ELSE {<<"a", "b">>}

\* ------------------------------------------------------------------- state
\* heap: the memory.  held: a pointer the caller kept from an earlier At on
\* the root, with the path it was asked for; live says that only successful
\* At calls were made since.  last: the last call (its method and receiver)
\* and what it returned.
\* calls: the number of calls made.
NoHeld == [c |-> 0, path |-> <<>>, live |-> FALSE]

NoCall ==
  [op |-> "none", c |-> 0, err |-> NoError, panic |-> FALSE, ret |-> 0,
   out |-> GoNil, text |-> JNull]

Init ==
  /\ heap = EmptyHeap
  /\ held = NoHeld
  /\ last = NoCall
  /\ calls = 0

\* the nodes of the tree: a caller reaches each of them by an At that
\* finds every step of its path in place
TreeCells == Reach(heap, {Root}, {Root})

\* the call so far: which method, on which cell
Call(op, that) == [NoCall EXCEPT !.op = op, !.c = that]

\* memory after a call whose results are r
Commit(r) ==
  /\ calls' = calls + 1
  /\ ~r.h.oom
  /\ heap' = Collect(r.h, {Root, held'.c})

DoAt(that, path, keep) ==
  /\ calls < MaxCalls
  /\ LET r == At(heap, that, path)
     IN /\ held' = IF keep /\ r.err = NoError
                   THEN [c |-> r.ret,
                         path |-> path,
                         live |-> TRUE]
                   ELSE [held EXCEPT !.live = @ /\ r.err = NoError]
        /\ last' = [Call("At", that) EXCEPT !.err = r.err,
                                           !.panic = (r.err # NoError), !.ret = r.ret]
        /\ Commit(r)

DoMap(that, key) ==
  /\ calls < MaxCalls
  /\ LET r == Map(heap, that, key)
     IN /\ held' = [held EXCEPT !.live = FALSE]
        /\ last' = [Call("Map", that) EXCEPT !.err = r.err,
                                            !.panic = (r.err # NoError), !.ret = r.ret]
        /\ Commit(r)

DoArray(that, size) ==
  /\ calls < MaxCalls
  /\ LET r == Array(heap, that, size)
     IN /\ held' = [held EXCEPT !.live = FALSE]
        /\ last' = [Call("Array", that) EXCEPT !.err = r.err,
                                              !.panic = (r.err # NoError)]
        /\ Commit(r)

DoVal(that, val) ==
  /\ calls < MaxCalls
  /\ LET r == Val(heap, that, val)
     IN /\ held' = [held EXCEPT !.live = FALSE]
        /\ last' = [Call("Val", that) EXCEPT !.err = r.err,
                                            !.panic = (r.err # NoError)]
        /\ Commit(r)

DoGet(that) ==
  /\ calls < MaxCalls
  /\ LET r == Get(heap, that)
     IN /\ held' = held
        /\ last' = [Call("Get", that) EXCEPT !.err = r.err, !.panic = (r.err # NoError),
                                            !.out = r.out]
        /\ Commit(r)

DoUnset(that) ==
  /\ calls < MaxCalls
  /\ LET r == Unset(heap, that)
     IN /\ held' = [held EXCEPT !.live = FALSE]
        /\ last' = Call("Unset", that)
        /\ Commit(r)

DoUnmarshalDontGenerate(that, val, recurse) ==
  /\ calls < MaxCalls
  /\ LET h == UnmarshalDontGenerate(heap, that, val, recurse)
     IN /\ held' = [held EXCEPT !.live = FALSE]
        /\ last' = Call("UnmarshalDontGenerate", that)
        /\ Commit(Ret(h, that))

DoMarshalJSON(that) ==
  /\ calls < MaxCalls
  /\ /\ held' = held
     /\ last' = [Call("MarshalJSON", that) EXCEPT !.text = MarshalJSON(heap, that)]
     /\ Commit(Ret(heap, that))

DoUnmarshalJSON(that, data, ord) ==
  /\ calls < MaxCalls
  /\ LET r == UnmarshalJSON(heap, that, data, ord)
     IN /\ held' = [held EXCEPT !.live = FALSE]
        /\ last' = [Call("UnmarshalJSON", that) EXCEPT !.err = r.err,
                                                      !.panic = r.panic]
        /\ Commit(r)

\* the calls of a caller that keeps no pointer between calls
Next ==
  \/ \E that \in TreeCells, path \in PathInputs : DoAt(that, path, FALSE)
  \/ \E that \in TreeCells, key \in Keys : DoMap(that, key)
  \/ \E that \in TreeCells, size \in SizeInputs : DoArray(that, size)
  \/ \E that \in TreeCells, val \in ValInputs : DoVal(that, val)
  \/ \E that \in TreeCells : DoGet(that)
  \/ \E that \in TreeCells : DoUnset(that)
  \/ \E that \in TreeCells, val \in BOOLEAN, recurse \in BOOLEAN :
       DoUnmarshalDontGenerate(that, val, recurse)
  \/ \E that \in TreeCells : DoMarshalJSON(that)
  \/ \E that \in TreeCells, data \in DocInputs :
       \E ord \in OrdersFor(data) : DoUnmarshalJSON(that, data, ord)

Spec == Init /\ [][Next]_vars

\* the calls of a caller that keeps the pointer an At on the root returned
\* and goes on using it
NextHeld ==
  \/ \E path \in PathInputs, keep \in BOOLEAN : DoAt(Root, path, keep)
  \/ \E path \in PathInputs : held.c # 0 /\ DoAt(held.c, path, FALSE)
  \/ \E key \in Keys : held.c # 0 /\ DoMap(held.c, key)
  \/ \E val \in ValInputs : held.c # 0 /\ DoVal(held.c, val)
  \/ held.c # 0 /\ DoUnset(held.c)

SpecHeld == Init /\ [][NextHeld]_vars

\* ------------------------------------------------------------------ claims
\* the calls of one step of a behaviour, by method, receiver and arguments
IsAt(that, path) == last'.op = "At" /\ last'.c = that /\ DoAt(that, path, FALSE)
IsMap(that, key) == last'.op = "Map" /\ last'.c = that /\ DoMap(that, key)
IsArray(that, size) == last'.op = "Array" /\ last'.c = that /\ DoArray(that, size)
IsVal(that, val) == last'.op = "Val" /\ last'.c = that /\ DoVal(that, val)
IsGet(that) == last'.op = "Get" /\ last'.c = that /\ DoGet(that)
IsUnset(that) == last'.op = "Unset" /\ last'.c = that /\ DoUnset(that)
IsUnmarshalJSON(that, data, ord) ==
  last'.op = "UnmarshalJSON" /\ last'.c = that /\ DoUnmarshalJSON(that, data, ord)

\* the kind of a node before the step
Kind(that) == heap.cells[that].t

\* the build-time calls that ask for the kind Object, Array and Value
AsksObject(that) ==
  \/ \E key \in Keys : IsMap(that, key)
  \/ \E path \in PathInputs : Len(path) > 0 /\ path[1].kind = "string" /\ IsAt(that, path)
AsksArray(that) ==
  \/ \E size \in SizeInputs : IsArray(that, size)
  \/ \E path \in PathInputs : Len(path) > 0 /\ path[1].kind = "int" /\ IsAt(that, path)
AsksValue(that) == \E val \in ValInputs : IsVal(that, val)

\* a call on a node of another concrete kind fails with ErrorMultipleType
\* and changes nothing
KindConflictFails(that) ==
  (\/ AsksObject(that) /\ Kind(that) \in {TypeArray, TypeValue}
   \/ AsksArray(that) /\ Kind(that) \in {TypeMap, TypeValue}
   \/ AsksValue(that) /\ Kind(that) \in {TypeMap, TypeArray})
  => last'.err = ErrorMultipleType /\ last'.panic /\ heap' = heap

\* C2 as stated: a call of a kind other than the node's concrete kind fails
\* with ErrorMultipleType, and every such call on an Undefined node or on a
\* node of the matching kind succeeds.
C2_AsStated ==
  [][\A that \in TreeCells :
       /\ KindConflictFails(that)
       /\ (\/ AsksObject(that) /\ Kind(that) \in {TypeUndefined, TypeMap}
           \/ AsksArray(that) /\ Kind(that) \in {TypeUndefined, TypeArray}
           \/ AsksValue(that) /\ Kind(that) \in {TypeUndefined, TypeValue})
          => last'.err = NoError]_vars

\* C2, amended: a call of a kind other than the node's concrete kind fails
\* with ErrorMultipleType; on an Undefined node or a node of the matching kind
\* the call does not fail with ErrorMultipleType at that node, and a Val, a
\* Map of a key the node does not have, an Array of a size >= 0 and an At of
\* one string or one index >= 0 succeed there, while a Map of a key the node
\* has fails with ErrorKeyAlreadyExist and a negative size or index with
\* ErrorArrayNegativeValue.
C2_KindConflict ==
  [][\A that \in TreeCells :
       /\ KindConflictFails(that)
       /\ \A key \in Keys :
            IsMap(that, key) /\ Kind(that) \in {TypeUndefined, TypeMap}
            => last'.err = IF heap.maps[heap.cells[that].m][key] = 0
                           THEN NoError ELSE ErrorKeyAlreadyExist
       /\ \A size \in SizeInputs :
            IsArray(that, size) /\ Kind(that) \in {TypeUndefined, TypeArray}
            => last'.err = IF size >= 0 THEN NoError ELSE ErrorArrayNegativeValue
       /\ \A val \in ValInputs :
            IsVal(that, val) /\ Kind(that) \in {TypeUndefined, TypeValue}
            => last'.err = NoError
       /\ \A path \in PathInputs :
            /\ IsAt(that, path) /\ Len(path) = 1 /\ path[1].kind = "string"
               /\ Kind(that) \in {TypeUndefined, TypeMap}
               => last'.err = NoError
            /\ IsAt(that, path) /\ Len(path) = 1 /\ path[1].kind = "int"
               /\ Kind(that) \in {TypeUndefined, TypeArray}
               => last'.err = IF path[1].i >= 0 THEN NoError
                              ELSE ErrorArrayNegativeValue]_vars

\* a Map call has failed with ErrorMultipleType
C2_Witness == last.op = "Map" /\ last.err = ErrorMultipleType /\ last.panic

\* the steps that name a child: a key, or an index an array of the model can have
ChildSteps == {StrStep(k) : k \in Keys} \cup {IntStep(0), IntStep(1)}

\* the places of a tree: the paths of child steps from the root
NodePaths ==
  {<<>>} \cup {<<x>> : x \in ChildSteps} \cup {<<x, y>> : x, y \in ChildSteps}
  \cup {<<x, y, z>> : x, y, z \in ChildSteps}

\* the nodes from the root down to the place p
OnPath(h, p) == {Lookup(h, Root, SubSeq(p, 1, i)) : i \in 0..Len(p)}

\* C1 as stated: whatever the call, a node that holds a concrete kind and is
\* still in the tree after the call holds the same kind, unless the call was
\* an Unset of the node or of an ancestor.
C1_AsStated ==
  [][\A p \in NodePaths :
       LET c == Lookup(heap, Root, p)
           d == Lookup(heap', Root, p)
       IN (/\ c # 0
           /\ d # 0
           /\ heap.cells[c].t # TypeUndefined
           /\ ~(last'.op = "Unset" /\ last'.c \in OnPath(heap, p)))
          => heap'.cells[d].t = heap.cells[c].t]_vars

\* C5 as stated: Array(size), size >= 0, on an Undefined or Array node leaves
\* exactly size elements; those below min(size, old length) are the elements
\* that were there, the others are zero values.
C5_AsStated ==
  [][\A that \in TreeCells, size \in SizeInputs :
       (IsArray(that, size) /\ size >= 0 /\ Kind(that) \in {TypeUndefined, TypeArray})
       => LET old == heap.cells[that].a
              now == heap'.cells[that].a
          IN /\ last'.err = NoError
             /\ heap'.cells[that].t = TypeArray
             /\ Len(now) = size
             /\ \A i \in 1..size :
                  heap'.cells[now[i]] =
                    IF i <= Len(old) THEN heap.cells[old[i]] ELSE Zero]_vars

\* C3: a successful At reaches its node again: the same call on the memory
\* it left returns the same node and changes nothing; and it interferes with
\* no other path: every place of the tree is still there, with the kind, the
\* value and the flag it had (an Undefined node may have become an Object or
\* an Array on the way), also when the call grew an array.
C3_AtRoundTrip ==
  [][\A that \in TreeCells, path \in PathInputs :
       (IsAt(that, path) /\ last'.err = NoError)
       => /\ Lookup(heap', that, path) = last'.ret
          /\ At(heap', that, path) = Ret(heap', last'.ret)
          /\ \A p \in NodePaths :
               LET c == Lookup(heap, Root, p)
                   d == Lookup(heap', Root, p)
               IN c # 0
                  => /\ d # 0
                     /\ heap'.cells[d].t = heap.cells[c].t
                        \/ heap.cells[c].t = TypeUndefined
                     /\ heap'.cells[d].v = heap.cells[c].v
                     /\ heap'.cells[d].dontGenerate = heap.cells[c].dontGenerate
                     /\ Len(heap'.cells[d].a) >= Len(heap.cells[c].a)]_vars

\* the second call was an At that grew the root array from one element, a
\* Value, to two and returned the new element
C3_Witness ==
  /\ calls = 2
  /\ last.op = "At" /\ last.c = Root /\ last.err = NoError
  /\ heap.cells[Root].t = TypeArray
  /\ Len(heap.cells[Root].a) = 2
  /\ heap.cells[heap.cells[Root].a[1]].t = TypeValue
  /\ last.ret = heap.cells[Root].a[2]

\* C4 as stated: while only successful At calls have followed the At that
\* returned the kept pointer, a value set through that pointer is the value
\* of the node its path reaches from the root.
C4_AsStated ==
  [][\A val \in ValInputs :
       (/\ held.live
        /\ last'.op = "Val" /\ last'.c = held.c /\ DoVal(held.c, val)
        /\ last'.err = NoError)
       => LET d == Lookup(heap', Root, held.path)
          IN /\ d # 0
             /\ heap'.cells[d].t = TypeValue
             /\ heap'.cells[d].v = val]_vars

\* C6: Map of a key the node has fails with ErrorKeyAlreadyExist and changes
\* nothing; At of a key the node has returns the child that is there and
\* changes nothing; and after any successful At of a key, the child it
\* returned is the child at that key, which the same At returns again.
C6_MapStrictAtNot ==
  [][\A that \in TreeCells, key \in Keys :
       LET child == heap.maps[heap.cells[that].m][key]
       IN /\ (IsMap(that, key) /\ child # 0)
             => last'.err = ErrorKeyAlreadyExist /\ last'.panic /\ heap' = heap
          /\ (IsAt(that, <<StrStep(key)>>) /\ child # 0)
             => last'.err = NoError /\ last'.ret = child /\ heap' = heap
          /\ (IsAt(that, <<StrStep(key)>>) /\ last'.err = NoError)
             => /\ heap'.maps[heap'.cells[that].m][key] = last'.ret
                /\ At(heap', that, <<StrStep(key)>>) = Ret(heap', last'.ret)]_vars

\* a Map call has failed with ErrorKeyAlreadyExist
C6_Witness == last.op = "Map" /\ last.err = ErrorKeyAlreadyExist /\ last.panic

\* C7: Val on an Undefined or Value node succeeds, and the node is then a
\* Value whose Get returns the value just given; Get returns the value of a
\* Value node and fails with ErrorRetrieveUserValue on any other node; Map on
\* a Value node fails with ErrorMultipleType.
C7_ValGet ==
  [][\A that \in TreeCells :
       /\ \A val \in ValInputs :
            (IsVal(that, val) /\ Kind(that) \in {TypeUndefined, TypeValue})
            => /\ last'.err = NoError
               /\ heap'.cells[that].t = TypeValue
               /\ Get(heap', that) = [h |-> heap', err |-> NoError, out |-> val]
       /\ IsGet(that)
          => /\ heap' = heap
             /\ IF Kind(that) = TypeValue
                THEN last'.err = NoError /\ last'.out = heap.cells[that].v
                ELSE last'.err = ErrorRetrieveUserValue /\ last'.panic
       /\ \A key \in Keys :
            (IsMap(that, key) /\ Kind(that) = TypeValue)
            => last'.err = ErrorMultipleType /\ last'.panic]_vars

\* the third call was a Get on the root, which returned 2
C7_Witness ==
  /\ calls = 3
  /\ last.op = "Get" /\ last.c = Root /\ last.err = NoError
  /\ last.out = GoInt(2)

\* the keys of an Object node in memory h
KeysOf(h, that) == {k \in Keys : h.maps[h.cells[that].m][k] # 0}

\* the subtree of a node is in memory g what it is in memory h
SameSubtree(h, g, c) == \A x \in Reach(h, {c}, {c}) : g.cells[x] = h.cells[x]

\* C8: decoding a JSON object into an Object node merges by key.  A child
\* whose key the text does not mention is left as it is, with its subtree;
\* a child whose key the text mentions stays the child at that key and,
\* when the call succeeds, is what decoding the member into it alone makes
\* it; a key of the text the node does not have is not created when the
\* node's dontGenerate is set, so that the keys after the call are the keys
\* before it, and when the flag is clear and the call succeeds it is created,
\* a number member as a Value node with the decoded number.
C8_ObjectMerge ==
  [][\A that \in TreeCells, data \in DocInputs :
       \A ord \in OrdersFor(data) :
         (IsUnmarshalJSON(that, data, ord) /\ data.k = "object" /\ Kind(that) = TypeMap)
         => LET m == heap.cells[that].m
                dg == heap.cells[that].dontGenerate
            IN /\ heap'.cells[that] = heap.cells[that]
               /\ \A k \in KeysOf(heap, that) :
                    /\ heap'.maps[m][k] = heap.maps[m][k]
                    /\ k \notin DOMAIN data.f => SameSubtree(heap, heap', heap.maps[m][k])
                    /\ (k \in DOMAIN data.f /\ last'.err = NoError)
                       => LET alone == UnmarshalJSON(heap, heap.maps[m][k], data.f[k], ord)
                          IN /\ alone.err = NoError
                             /\ MarshalJSON(heap', heap.maps[m][k]) =
                                  MarshalJSON(alone.h, heap.maps[m][k])
                             /\ heap'.cells[heap.maps[m][k]].t =
                                  alone.h.cells[heap.maps[m][k]].t
               /\ dg => KeysOf(heap', that) = KeysOf(heap, that)
               /\ (~dg /\ last'.err = NoError)
                  => /\ KeysOf(heap', that) = KeysOf(heap, that) \cup DOMAIN data.f
                     /\ \A k \in DOMAIN data.f \ KeysOf(heap, that) :
                          data.f[k].k = "number"
                          => /\ heap'.cells[heap'.maps[m][k]].t = TypeValue
                             /\ heap'.cells[heap'.maps[m][k]].v =
                                  jsonUnmarshalValue(data.f[k])]_vars

\* under a set dontGenerate the root, an Object with the key "a" alone, has
\* decoded {"a":2,"b":1}: "a" holds 2 and there is no "b"
C8_Witness ==
  /\ last.op = "UnmarshalJSON" /\ last.c = Root /\ last.err = NoError
  /\ heap.cells[Root].t = TypeMap
  /\ heap.cells[Root].dontGenerate
  /\ KeysOf(heap, Root) = {"a"}
  /\ heap.cells[heap.maps[heap.cells[Root].m]["a"]].v = GoFloat(2)

\* C9 as stated: decoding a JSON array of n elements into an Undefined node
\* whose dontGenerate is clear succeeds and leaves an Array node of n
\* elements, the i-th holding the i-th element of the text.
C9_AsStated ==
  [][\A that \in TreeCells, data \in DocInputs :
       \A ord \in OrdersFor(data) :
         (/\ IsUnmarshalJSON(that, data, ord)
          /\ data.k = "array"
          /\ Kind(that) = TypeUndefined
          /\ ~heap.cells[that].dontGenerate)
         => /\ last'.err = NoError
            /\ heap'.cells[that].t = TypeArray
            /\ Len(heap'.cells[that].a) = Len(data.e)
            /\ \A i \in 1..Len(data.e) :
                 /\ i <= Len(heap'.cells[that].a)
                 /\ MarshalJSON(heap', heap'.cells[that].a[i]) = data.e[i]
                 /\ data.e[i].k = "number"
                    => /\ heap'.cells[heap'.cells[that].a[i]].t = TypeValue
                       /\ heap'.cells[heap'.cells[that].a[i]].v =
                            jsonUnmarshalValue(data.e[i])]_vars

IsScalarText(data) == data.k \in {"number", "null"}

\* C11 as stated: no decode call ends in a panic, whatever fails in it is an
\* error it returns; a scalar literal decoded into an Undefined or a Value
\* node succeeds and leaves a Value node with the decoded value; and a scalar
\* literal decoded into an Object or Array node returns (nil or an error)
\* instead of raising the ErrorMultipleType panic of Val.
C11_AsStated ==
  [][\A that \in TreeCells, data \in DocInputs :
       \A ord \in OrdersFor(data) :
         IsUnmarshalJSON(that, data, ord)
         => /\ ~last'.panic
            /\ (IsScalarText(data) /\ Kind(that) \in {TypeUndefined, TypeValue})
               => /\ last'.err = NoError
                  /\ heap'.cells[that].t = TypeValue
                  /\ heap'.cells[that].v = jsonUnmarshalValue(data)]_vars

\* the tree holds only what Val calls and number literals put into it
ScalarsOnly(h) ==
  \A c \in Reach(h, {Root}, {Root}) : h.cells[c].v.k \in {"nil", "int", "float64"}

\* the tree the text decodes to in a fresh node, alone in memory
Decoded(text, ord) == UnmarshalJSON(EmptyHeap, Root, text, ord)

\* C12 as stated: the text of the tree, decoded into a fresh node, gives a
\* tree with the same keys, lengths and values, whose text is the same text;
\* and decoding that text once more gives the same text again.
C12_AsStated ==
  ScalarsOnly(heap)
  => \A ord \in KeyOrders :
       LET text == MarshalJSON(heap, Root)
           once == Decoded(text, ord)
           twice == Decoded(MarshalJSON(once.h, Root), ord)
       IN /\ once.err = NoError
          /\ MarshalJSON(once.h, Root) = text
          /\ twice.err = NoError
          /\ MarshalJSON(twice.h, Root) = text

\* the nodes below a node, and the map objects of the node and of those
Below(h, c) == Reach(h, {c}, {})
MapsBelow(h, c) == {h.cells[x].m : x \in Below(h, c) \cup {c}} \ {0}

\* the node c of memory h is the node d of memory g, subtree and flags included
SameNode(h, c, g, d) ==
  /\ g.cells[d] = h.cells[c]
  /\ \A x \in Below(h, c) : g.cells[x] = h.cells[x]
  /\ \A m \in MapsBelow(h, c) : g.maps[m] = h.maps[m]

\* C13: At(i), i >= 0, on an Undefined or Array node succeeds and leaves an
\* Array of max(old length, i+1) elements; each element that was there is at
\* its index, with its subtree and its flag; each added element is a zero
\* JSONNode; the call returns the element at i.  And no At call, failed or
\* not, leaves any array of the tree shorter than it was.
C13_AtGrows ==
  [][/\ \A that \in TreeCells, path \in PathInputs :
          (/\ IsAt(that, path)
           /\ Len(path) = 1 /\ path[1].kind = "int" /\ path[1].i >= 0
           /\ Kind(that) \in {TypeUndefined, TypeArray})
          => LET old == heap.cells[that].a
                 now == heap'.cells[that].a
                 i == path[1].i
             IN /\ last'.err = NoError
                /\ heap'.cells[that].t = TypeArray
                /\ Len(now) = IF Len(old) > i + 1 THEN Len(old) ELSE i + 1
                /\ i >= Len(old) => Len(now) = i + 1
                /\ last'.ret = now[i + 1]
                /\ \A j \in 1..Len(now) :
                     IF j <= Len(old)
                     THEN SameNode(heap, old[j], heap', now[j])
                     ELSE heap'.cells[now[j]] = Zero
     /\ last'.op = "At"
        => \A p \in NodePaths :
             LET c == Lookup(heap, Root, p)
                 d == Lookup(heap', Root, p)
             IN c # 0 => d # 0 /\ Len(heap'.cells[d].a) >= Len(heap.cells[c].a)]_vars

\* the third call was an At(1) on the root, an Array of one element that is
\* an Object with a child: the root has two elements, the Object is still
\* the first and the call returned the second, an Undefined node
C13_Witness ==
  /\ calls = 3
  /\ last.op = "At" /\ last.c = Root /\ last.err = NoError
  /\ heap.cells[Root].t = TypeArray
  /\ Len(heap.cells[Root].a) = 2
  /\ heap.cells[heap.cells[Root].a[1]].t = TypeMap
  /\ KeysOf(heap, heap.cells[Root].a[1]) # {}
  /\ last.ret = heap.cells[Root].a[2]
  /\ heap.cells[last.ret] = Zero

\* what decoding the text data into the node c alone does, from memory h
Alone(h, c, data, ord) == UnmarshalJSON(h, c, data, ord)

\* the node c is in memory g what the call r (a decode into c) made it
DecodedAs(g, c, r) ==
  /\ MarshalJSON(g, c) = MarshalJSON(r.h, c)
  /\ g.cells[c].t = r.h.cells[c].t
  /\ g.cells[c].v = r.h.cells[c].v

\* C14: decoding a JSON array of n elements into an Array node of L elements
\* whose dontGenerate is set leaves the node with the same L elements in the
\* same places; the elements at n and beyond are as they were, subtrees
\* included; the call succeeds exactly when, for each i < min(n, L),
\* decoding input element i into the element i succeeds, whatever the input
\* elements at L and beyond are, and each of those elements is then what
\* that decode makes it.
C14_SuppressedArray ==
  [][\A that \in TreeCells, data \in DocInputs :
       \A ord \in OrdersFor(data) :
         (/\ IsUnmarshalJSON(that, data, ord)
          /\ data.k = "array"
          /\ Kind(that) = TypeArray
          /\ heap.cells[that].dontGenerate)
         => LET a == heap.cells[that].a
                L == Len(a)
                n == Len(data.e)
                both == IF n < L THEN n ELSE L
            IN /\ heap'.cells[that] = heap.cells[that]
               /\ Len(heap'.cells[that].a) = L
               /\ \A j \in (n + 1)..L : SameNode(heap, a[j], heap', a[j])
               /\ last'.err = NoError
                  <=> \A j \in 1..both : Alone(heap, a[j], data.e[j], ord).err = NoError
               /\ last'.err = NoError
                  => \A j \in 1..both :
                       DecodedAs(heap', a[j], Alone(heap, a[j], data.e[j], ord))]_vars

\* the root, an Array of one element with dontGenerate set, has decoded
\* [2,1]: its one element holds 2 and there is no second element
C14_Witness ==
  /\ last.op = "UnmarshalJSON" /\ last.c = Root /\ last.err = NoError
  /\ heap.cells[Root].t = TypeArray
  /\ heap.cells[Root].dontGenerate
  /\ Len(heap.cells[Root].a) = 1
  /\ heap.cells[heap.cells[Root].a[1]].t = TypeValue
  /\ heap.cells[heap.cells[Root].a[1]].v = GoFloat(2)

\* the texts of the inputs that are valid JSON
IsValidText(data) == data.k \in {"null", "number", "object", "array"}

\* C15: decoding valid JSON text, a scalar, an object or an array, into an
\* Undefined node whose dontGenerate is set succeeds and changes that node
\* alone: it is a Value holding what encoding/json decodes the text to, with
\* no map and no slice; and decoding the empty input into any node succeeds
\* and changes nothing.
C15_SuppressedUndefined ==
  [][\A that \in TreeCells, data \in DocInputs :
       \A ord \in OrdersFor(data) :
         IsUnmarshalJSON(that, data, ord)
         => /\ (/\ IsValidText(data)
                /\ Kind(that) = TypeUndefined
                /\ heap.cells[that].dontGenerate)
               => /\ last'.err = NoError /\ ~last'.panic
                  /\ heap' = [heap EXCEPT !.cells[that].t = TypeValue,
                                          !.cells[that].v = jsonUnmarshalValue(data)]
                  /\ heap'.cells[that].m = 0
                  /\ heap'.cells[that].a = <<>>
                  /\ Children(heap', that) \subseteq {0}
            /\ data = JEmpty
               => last'.err = NoError /\ ~last'.panic /\ heap' = heap]_vars

\* the root, with dontGenerate set, has decoded an array text as a value:
\* it is a Value holding a []interface{} and has no elements
C15_Witness ==
  /\ last.op = "UnmarshalJSON" /\ last.c = Root /\ last.err = NoError
  /\ heap.cells[Root].dontGenerate
  /\ heap.cells[Root].t = TypeValue
  /\ heap.cells[Root].v.k = "slice"
  /\ Len(heap.cells[Root].v.e) = 2
  /\ heap.cells[Root].a = <<>>

\* the greatest element of a set of numbers, 0 for the empty set
MaxOf(S) == IF S = {} THEN 0 ELSE CHOOSE x \in S : \A y \in S : x >= y

IsUnmarshalDontGenerate(that, val, recurse) ==
  /\ last'.op = "UnmarshalDontGenerate" /\ last'.c = that
  /\ DoUnmarshalDontGenerate(that, val, recurse)

\* C17: UnmarshalDontGenerate(val, recurse) sets the flag of the node, and
\* with recurse the flag of every node below it, to val; without recurse the
\* flags below it are as they were; it changes nothing else in memory, no
\* kind, no value, no map and no slice.  And whatever the call, a node at a
\* place of the tree that was not there before the call has its flag clear.
C17_Toggle ==
  [][/\ \A that \in TreeCells, val \in BOOLEAN, recurse \in BOOLEAN :
          IsUnmarshalDontGenerate(that, val, recurse)
          => /\ \A c \in 0..NCells :
                  heap'.cells[c] =
                    [heap.cells[c] EXCEPT !.dontGenerate =
                       IF c = that \/ (recurse /\ c \in Below(heap, that))
                       THEN val ELSE @]
             /\ heap'.maps = heap.maps
     /\ \A p \in NodePaths :
          (Lookup(heap, Root, p) = 0 /\ Lookup(heap', Root, p) # 0)
          => ~heap'.cells[Lookup(heap', Root, p)].dontGenerate]_vars

\* the second call set the flag on the root with recurse: the root, its
\* child "a" and the child "b" of that child all have it set
C17_Witness ==
  /\ calls = 2
  /\ last.op = "UnmarshalDontGenerate" /\ last.c = Root
  /\ heap.cells[Root].dontGenerate
  /\ Lookup(heap, Root, <<StrStep("a"), StrStep("b")>>) # 0
  /\ heap.cells[Lookup(heap, Root, <<StrStep("a")>>)].dontGenerate
  /\ heap.cells[Lookup(heap, Root, <<StrStep("a"), StrStep("b")>>)].dontGenerate

\* C18: Unset leaves the node a zero JSONNode: kind Undefined, no map, no
\* slice, no value, flag clear.  Every node outside the subtree of the node
\* is what and where it was.  The node then takes any kind: At of a key, Map
\* of a key, At of an index >= 0, Array of a size >= 0 and Val succeed on it,
\* and every At, Map, Array and Val call ends on it as it ends on a new node.
C18_Unset ==
  [][\A that \in TreeCells :
       IsUnset(that)
       => /\ heap'.cells[that] = Zero
          /\ Children(heap', that) \subseteq {0}
          /\ \A c \in TreeCells \ (Below(heap, that) \cup {that}) :
               /\ heap'.cells[c] = heap.cells[c]
               /\ heap'.maps[heap.cells[c].m] = heap.maps[heap.cells[c].m]
          /\ \A p \in NodePaths :
               (Lookup(heap, Root, p) # 0 /\ that \notin OnPath(heap, p))
               => Lookup(heap', Root, p) = Lookup(heap, Root, p)
          /\ \A key \in Keys :
               /\ At(heap', that, <<StrStep(key)>>).err = NoError
               /\ Map(heap', that, key).err = NoError
          /\ \A i \in {0, 1} : At(heap', that, <<IntStep(i)>>).err = NoError
          /\ \A size \in SizeInputs : size >= 0 => Array(heap', that, size).err = NoError
          /\ \A val \in ValInputs : Val(heap', that, val).err = NoError
          /\ \A path \in PathInputs :
               At(heap', that, path).err = At(EmptyHeap, Root, path).err
          /\ \A size \in SizeInputs :
               Array(heap', that, size).err = Array(EmptyHeap, Root, size).err]_vars

\* the second call was an Unset of the first element of the root, an Array
\* of two elements: that element is a zero JSONNode and the second element
\* still holds its value
C18_Witness ==
  /\ calls = 2
  /\ last.op = "Unset"
  /\ heap.cells[Root].t = TypeArray
  /\ Len(heap.cells[Root].a) = 2
  /\ last.c = heap.cells[Root].a[1]
  /\ heap.cells[heap.cells[Root].a[1]] = Zero
  /\ heap.cells[heap.cells[Root].a[2]].t = TypeValue
  /\ heap.cells[heap.cells[Root].a[2]].v = GoFloat(1)

\* C19: in every state every node of the tree has the payload of its kind
\* and no other: it has a map exactly when it is an Object, a slice (made,
\* or with elements) only when it is an Array, a value other than nil only
\* when it is a Value, and an Undefined node has no map, no slice and no
\* value.
C19_PayloadMatchesKind ==
  \A c \in TreeCells :
    LET n == heap.cells[c]
    IN /\ n.m # 0 <=> n.t = TypeMap
       /\ (Len(n.a) > 0 \/ n.aMade) => n.t = TypeArray
       /\ n.v # GoNil => n.t = TypeValue
       /\ n.t = TypeUndefined => n.m = 0 /\ n.a = <<>> /\ ~n.aMade /\ n.v = GoNil

\* a tree with a node of each kind: the root is an Array whose first element
\* is an Object with a Value child and whose second element is a Value
C19_Witness ==
  /\ heap.cells[Root].t = TypeArray
  /\ Len(heap.cells[Root].a) = 2
  /\ heap.cells[heap.cells[Root].a[1]].t = TypeMap
  /\ Lookup(heap, Root, <<IntStep(0), StrStep("a")>>) # 0
  /\ heap.cells[Lookup(heap, Root, <<IntStep(0), StrStep("a")>>)].t = TypeValue
  /\ heap.cells[heap.cells[Root].a[2]].t = TypeValue

\* the build-time calls
BuildOps == {"At", "Map", "Array", "Val", "Get"}

\* C20 as stated: a build-time call that fails leaves memory as it was: no
\* node has changed its kind and no node was created.
C20_AsStated ==
  [][(last'.op \in BuildOps /\ last'.err # NoError) => heap' = heap]_vars

====
